---- MODULE Spec2Model ----
(***************************************************************************)
(* FixedSizedStack<T, N> of src/src/examples/advanced/unsafe_ops.rs: a     *)
(* fixed-capacity LIFO container over a block obtained from libc::malloc,  *)
(* with push / pop / deref / empty / free and a Drop implementation.       *)
(*                                                                         *)
(* The model keeps the struct's two fields (pointer, curr_size), the       *)
(* allocator's view of the block (live or not, its bytes), what each call  *)
(* returned, printed and touched in memory, and the caller's copy of the   *)
(* raw pointer that pop hands out.                                         *)
(***************************************************************************)
EXTENDS Integers, Sequences, FiniteSets

\* ---------------------------------------------------------------- bounds
\* The const generic N of FixedSizedStack<T, N>.
N == 3
\* The element type T is modelled by the values 1..MaxVal; 0 stands for the
\* bytes of a slot no push has written (malloc does not initialise).
MaxVal == 2

Values == 1..MaxVal
Bytes == 0..MaxVal

\* std::ptr::null_mut() and the one address malloc can hand out.
NULL == "null"
BLK == "blk"

VARIABLES
    cap,             \* the capacity the instance was compiled with (const N)
    overflow_checks, \* build profile: TRUE = debug (arithmetic overflow panics)
    life,            \* "unborn" | "alive" | "dropped": the binding `stack` in main
    pointer,         \* FixedSizedStack.pointer
    curr_size,       \* FixedSizedStack.curr_size
    blockLive,       \* allocator: BLK is currently allocated
    mem,             \* bytes of the block, slot by slot (they outlive free)
    allocOk,         \* malloc of this instance returned a block
    freed,           \* libc::free calls made on this instance's block
    freedNull,       \* libc::free was handed a null pointer
    fault,           \* "none" | "panic" | "segv" | "abort"
    op,              \* the method that ran last
    ret,             \* what it returned
    msg,             \* what it printed last
    access,          \* the memory access it made through self.pointer
    e,               \* the caller's `e`: the raw pointer the last pop returned
    eVal,            \* *e as the caller read it when pop returned
    freeStreak,      \* number of free() calls made in direct succession
    phase,           \* observer: "push" run on a fresh stack, then "pop" run
    pushed,          \* observer: values pushed in the push run
    popped,          \* observer: values read through pop's results in the pop run
    abs,             \* reference: an abstract bounded sequence fed the same calls
    absRet,          \* reference: the element the abstract pop removed last
    scn,             \* observer: calls matched so far of the scenario push 1..cap+1,
                     \* then cap+1 pops, on a fresh allocated stack (-1: left it)
    pc,              \* main(): the statement to run next ("idle": main is not run)
    loop_i,          \* main(): the loop variable i of `for i in 1..=STACK_SIZE`
    out,             \* main(): the line printed last
    pops,            \* main(): calls of stack.pop() made by the while loop
    nullPops,        \* main(): how many of them returned null
    lockHolder,      \* shared use: the thread that holds the external mutex (0: none)
    tpc,             \* shared use: per thread, the step of its current call
    treg,            \* shared use: per thread, the local `offset` of pop
    targ,            \* shared use: per thread, the argument of its push in progress
    pushedBy,        \* shared use: the thread whose push was the last call (0: none)
    qpc,             \* mpsc(): the questioner's next statement ("idle": demo not run)
    sent_initial,    \* mpsc(): the questioner's `sent_initial`
    q_vec_idx,       \* mpsc(): the questioner's `vec_idx`
    q_msg,           \* mpsc(): the `msg` the questioner's recv returned
    apc,             \* mpsc(): the answerer's next statement
    a_vec_idx,       \* mpsc(): the answerer's `vec_idx`
    a_msg,           \* mpsc(): the `msg` the answerer's recv returned
    chanQ,           \* mpsc(): messages in flight from tx_questioner to rx_answerer
    chanA,           \* mpsc(): messages in flight from tx_answerer to rx_questioner
    printed,         \* mpsc(): the lines on standard output, in order
    chat_pc,         \* mpsc(): the test function's next statement
    cv_spurious,     \* condvar(): whether Condvar::wait may return unnotified
    cv_stack,        \* condvar(): the Vec<String> behind stack_ref (String#i as i)
    cv_stack_lock,   \* condvar(): holder of the stack's mutex (0: free)
    cv_done,         \* condvar(): the bool behind done_mutex
    cv_done_lock,    \* condvar(): holder of done_mutex (0: free)
    cv_push_pc,      \* condvar(): the pushing thread's next statement
    cv_push_i,       \* condvar(): the pushing thread's loop variable i
    cv_pop_pc,       \* condvar(): the popping thread's next statement
    cv_popped,       \* condvar(): the strings the popping thread got, in order
    cv_test_pc,      \* condvar(): the test function's next statement
    bar_pc,          \* barrier(): per thread, its next statement
    bar_local_gen,   \* barrier(): per thread, the generation its wait arrived in
    bar_count,       \* barrier(): threads arrived at the barrier in this generation
    bar_generation,  \* barrier(): the barrier's generation
    bar_test_pc,     \* barrier(): the test function's next statement
    bar_test_k,      \* barrier(): threads spawned, then threads joined
    mx_stack,        \* mutex(): the Vec<String> behind stack_ref (String#i as i)
    mx_lock,         \* mutex(): holder of the mutex (0: free)
    mx_poisoned,     \* mutex(): the mutex's poison flag
    mx_push_pc,      \* mutex(): the pushing thread's next statement
    mx_push_i,       \* mutex(): the pushing thread's loop variable i
    mx_pushed,       \* mutex(): strings pushed so far
    mx_poison_seen,  \* mutex(): times the pusher's lock() took the Err(poisoned) arm
    mx_pop_pc,       \* mutex(): the popping thread's next statement
    mx_pop_i,        \* mutex(): the popping thread's loop variable i
    mx_test_pc,      \* mutex(): the test function's next statement
    mx_reported      \* mutex(): "One of the threads has panicked!" lines printed

\* The slots of the block: malloc(size_of::<T>() * N).
Slots == 0..(cap - 1)

svars == <<overflow_checks, life, pointer, curr_size, blockLive, mem, allocOk,
          freed, freedNull, fault, op, ret, msg, access, e, eVal, freeStreak,
          phase, pushed, popped, abs, absRet, scn>>

mvars == <<pc, loop_i, out, pops, nullPops>>

lvars == <<lockHolder, tpc, treg, targ, pushedBy>>

chatVars == <<qpc, sent_initial, q_vec_idx, q_msg, apc, a_vec_idx, a_msg, chanQ,
             chanA, printed, chat_pc>>

cvVars == <<cv_spurious, cv_stack, cv_stack_lock, cv_done, cv_done_lock,
           cv_push_pc, cv_push_i, cv_pop_pc, cv_popped, cv_test_pc>>

barVars == <<bar_pc, bar_local_gen, bar_count, bar_generation, bar_test_pc,
            bar_test_k>>

mxVars == <<mx_stack, mx_lock, mx_poisoned, mx_push_pc, mx_push_i, mx_pushed,
           mx_poison_seen, mx_pop_pc, mx_pop_i, mx_test_pc, mx_reported>>

\* The demos of concurrency.rs.
dvars == <<chatVars, cvVars, barVars, mxVars>>

vars == <<cap, svars, mvars, lvars, dvars>>

\* ------------------------------------------------------- return values
Ret(k, b, o, v, f) == [kind |-> k, base |-> b, off |-> o, val |-> v, flag |-> f]
RetNone == Ret("none", NULL, 0, 0, FALSE)
RetUnit == Ret("unit", NULL, 0, 0, FALSE)
RetBool(f) == Ret("bool", NULL, 0, 0, f)
RetPtr(b, o) == Ret("ptr", b, o, 0, FALSE)
RetRef(v) == Ret("ref", NULL, 0, v, FALSE)

NoAccess == [kind |-> "none", base |-> NULL, off |-> 0]
Access(k, b, o) == [kind |-> k, base |-> b, off |-> o]

NullPtr == [base |-> NULL, off |-> 0]
Ptr(b, o) == [base |-> b, off |-> o]

\* A method of the stack can be called: the binding is in scope, nothing faulted.
Callable == life = "alive" /\ fault = "none"

\* ------------------------------------------------------------ observer
\* The observer follows one run of pushes on a fresh stack and the pops that
\* follow it; any other mutation ends the observation.
ObserverOff == phase' = "off" /\ pushed' = <<>> /\ popped' = <<>>
ObserverSame == UNCHANGED <<phase, pushed, popped>>

\* The scenario observer: push(1) .. push(cap + 1) move it from 0 to cap + 1,
\* the pops that follow move it on to 2 * cap + 2; any other call leaves it.
ScnOff == scn' = 0 - 1
ScnPush(v) == scn' = IF scn \in 0..cap /\ v = scn + 1 THEN scn + 1 ELSE 0 - 1
ScnPop == scn' = IF scn \in (cap + 1)..(cap + cap + 1) THEN scn + 1 ELSE 0 - 1

\* ------------------------------------------------------------ reference
\* The abstract stack: append below capacity, ignore at capacity, remove the
\* last element on pop.
AbsPush(v) == abs' = IF Len(abs) < cap THEN Append(abs, v) ELSE abs
AbsPop ==
    /\ abs' = IF Len(abs) > 0 THEN SubSeq(abs, 1, Len(abs) - 1) ELSE abs
    /\ absRet' = IF Len(abs) > 0 THEN abs[Len(abs)] ELSE 0
AbsReset == abs' = <<>>

\* Variant: new() takes the capacity for the element count.
NewSizeAsCapacity == cap

\* curr_size: 0 in new()
NewSize == 0

\* ------------------------------------------------------------------ new
\* libc::malloc either returns the block or fails with null.
New ==
    /\ life \in {"unborn", "dropped"}
    /\ fault = "none"
    /\ \E ok \in BOOLEAN :
         /\ pointer' = IF ok THEN BLK ELSE NULL
         /\ blockLive' = ok
         /\ allocOk' = ok
         /\ scn' = IF ok THEN 0 ELSE 0 - 1
    /\ curr_size' = NewSize
    /\ life' = "alive"
    /\ freed' = 0
    /\ freedNull' = FALSE
    /\ op' = "new"
    /\ ret' = RetNone
    /\ msg' = ""
    /\ access' = NoAccess
    /\ e' = NullPtr
    /\ eVal' = 0
    /\ freeStreak' = 0
    /\ phase' = "push"
    /\ pushed' = <<>>
    /\ popped' = <<>>
    /\ AbsReset
    /\ absRet' = 0
    /\ UNCHANGED <<cap, overflow_checks, mem, fault>>

\* The state of the stack's variables before new() is called.
InitStack ==
    /\ overflow_checks \in BOOLEAN
    /\ life = "unborn"
    /\ pointer = NULL
    /\ curr_size = 0
    /\ blockLive = FALSE
    /\ mem = [i \in Slots |-> 0]
    /\ allocOk = FALSE
    /\ freed = 0
    /\ freedNull = FALSE
    /\ fault = "none"
    /\ op = "none"
    /\ ret = RetNone
    /\ msg = ""
    /\ access = NoAccess
    /\ e = NullPtr
    /\ eVal = 0
    /\ freeStreak = 0
    /\ phase = "off"
    /\ pushed = <<>>
    /\ popped = <<>>
    /\ abs = <<>>
    /\ absRet = 0
    /\ scn = 0 - 1

NoOut == [kind |-> "none", popped |-> 0, curr |-> 0]

\* main() is not running: the stack is driven call by call.
MainIdle ==
    /\ pc = "idle"
    /\ loop_i = 0
    /\ out = NoOut
    /\ pops = 0
    /\ nullPops = 0

\* The threads of the shared use.
Threads == {1, 2}

\* No thread shares the stack.
LockIdle ==
    /\ lockHolder = 0
    /\ tpc = [t \in Threads |-> "idle"]
    /\ treg = [t \in Threads |-> 0]
    /\ targ = [t \in Threads |-> 0]
    /\ pushedBy = 0

\* mpsc() is not running.
ChatIdle ==
    /\ qpc = "idle"
    /\ sent_initial = FALSE
    /\ q_vec_idx = 0
    /\ q_msg = ""
    /\ apc = "idle"
    /\ a_vec_idx = 0
    /\ a_msg = ""
    /\ chanQ = <<>>
    /\ chanA = <<>>
    /\ printed = <<>>
    /\ chat_pc = "idle"

\* The threads of condvar() and of mutex().
PUSHER == 1
POPPER == 2

\* condvar() before its threads are spawned.
CvStart ==
    /\ cv_stack = <<>>
    /\ cv_stack_lock = 0
    /\ cv_done = FALSE
    /\ cv_done_lock = 0
    /\ cv_push_pc = "unspawned"
    /\ cv_push_i = 0
    /\ cv_pop_pc = "unspawned"
    /\ cv_popped = <<>>

\* condvar() is not running.
CvIdle ==
    /\ cv_spurious = FALSE
    /\ CvStart
    /\ cv_test_pc = "idle"

\* const THREADS_N: usize = 5;
THREADS_N == 5

BarThreads == 1..THREADS_N

\* barrier() before its threads are spawned.
BarStart ==
    /\ bar_pc = [t \in BarThreads |-> "unspawned"]
    /\ bar_local_gen = [t \in BarThreads |-> 0]
    /\ bar_count = 0
    /\ bar_generation = 0
    /\ bar_test_k = 0

\* barrier() is not running.
BarIdle ==
    /\ BarStart
    /\ bar_test_pc = "idle"

\* mutex() before its threads are spawned.
MxStart ==
    /\ mx_stack = <<>>
    /\ mx_lock = 0
    /\ mx_poisoned = FALSE
    /\ mx_push_pc = "unspawned"
    /\ mx_push_i = 0
    /\ mx_pushed = 0
    /\ mx_poison_seen = 0
    /\ mx_pop_pc = "unspawned"
    /\ mx_pop_i = 0
    /\ mx_reported = 0

\* mutex() is not running.
MxIdle ==
    /\ MxStart
    /\ mx_test_pc = "idle"

\* No demo of concurrency.rs is running.
DemosIdle ==
    /\ ChatIdle
    /\ CvIdle
    /\ BarIdle
    /\ MxIdle

Init ==
    /\ cap = N
    /\ InitStack
    /\ MainIdle
    /\ LockIdle
    /\ DemosIdle

\* ----------------------------------------------------------------- free
\* Variant: the null guard of free() left out.
FreeIsNullNever == FALSE

\* if self.pointer == std::ptr::null_mut() { return false; }
FreeIsNull == pointer = NULL

\* Variant: free() forgets to null the pointer.
AfterFreePointerStale == pointer

\* self.pointer = std::ptr::null_mut();
AfterFreePointer == NULL

\* libc::free(p): a null argument is a no-op of the allocator; a block that
\* is not allocated is a double free, which the allocator may detect (abort)
\* or not.
LibcFree(p) ==
    CASE p = NULL ->
           /\ freedNull' = TRUE
           /\ UNCHANGED <<blockLive, freed, fault>>
      [] p # NULL /\ blockLive ->
           /\ blockLive' = FALSE
           /\ freed' = freed + 1
           /\ UNCHANGED <<freedNull, fault>>
      [] p # NULL /\ ~blockLive ->
           /\ freed' = freed + 1
           /\ fault' \in {fault, "abort"}
           /\ UNCHANGED <<blockLive, freedNull>>

\* The body of free(&mut self) -> bool, shared by the explicit call and Drop.
FreeBody ==
    IF FreeIsNull
    THEN /\ ret' = RetBool(FALSE)
         /\ UNCHANGED <<pointer, curr_size, blockLive, freed, freedNull, fault>>
    ELSE /\ LibcFree(pointer)
         /\ pointer' = AfterFreePointer
         /\ curr_size' = 0
         /\ ret' = RetBool(TRUE)

StreakUp == freeStreak' = IF freeStreak < 2 THEN freeStreak + 1 ELSE 2

Free ==
    /\ Callable
    /\ FreeBody
    /\ op' = "free"
    /\ msg' = ""
    /\ access' = NoAccess
    /\ StreakUp
    /\ ObserverOff
    /\ AbsReset
    /\ ScnOff
    /\ UNCHANGED <<cap, overflow_checks, life, mem, allocOk, e, eVal, absRet>>

\* impl Drop: runs when `stack` leaves scope, also while a panic unwinds.
DropStack ==
    /\ life = "alive"
    /\ fault \in {"none", "panic"}
    /\ FreeBody
    /\ life' = "dropped"
    /\ op' = "drop"
    /\ msg' = "Freed the FixedSizedStack memory!"
    /\ access' = NoAccess
    /\ StreakUp
    /\ ObserverOff
    /\ AbsReset
    /\ ScnOff
    /\ UNCHANGED <<cap, overflow_checks, mem, allocOk, e, eVal, absRet>>

\* ----------------------------------------------------------------- push
\* Variant: the bound check of push off by one.
PushFullOffByOne == curr_size > cap

\* if self.curr_size >= N
PushFull == curr_size >= cap

\* Variant: push counts before it copies, so it writes one slot too high.
PushSlotAfterIncrement == curr_size + 1

\* self.pointer.add(self.curr_size)
PushSlot == curr_size

\* memcpy of one element into slot i of the block.
Store(i, v) == mem' = IF i \in Slots THEN [mem EXCEPT ![i] = v] ELSE mem

\* The slot as read through a pointer to it.
Load(i) == IF i \in Slots THEN mem[i] ELSE 0

Push(v) ==
    /\ Callable
    /\ op' = "push"
    /\ ret' = RetUnit
    /\ freeStreak' = 0
    /\ IF PushFull
       THEN /\ msg' = "Failed to push, Stack is full!"
            /\ access' = NoAccess
            /\ ObserverOff
            /\ UNCHANGED <<mem, curr_size, fault>>
       ELSE IF pointer = NULL
       THEN \* memcpy to the null page
            /\ access' = Access("write", NULL, PushSlot)
            /\ fault' = "segv"
            /\ msg' = ""
            /\ ObserverOff
            /\ UNCHANGED <<mem, curr_size>>
       ELSE /\ Store(PushSlot, v)
            /\ access' = Access("write", pointer, PushSlot)
            /\ curr_size' = curr_size + 1
            /\ msg' = ""
            /\ IF phase = "push"
               THEN pushed' = Append(pushed, v) /\ UNCHANGED <<phase, popped>>
               ELSE ObserverOff
            /\ UNCHANGED fault
    /\ AbsPush(v)
    /\ ScnPush(v)
    /\ UNCHANGED <<cap, overflow_checks, life, pointer, blockLive, allocOk, freed,
                   freedNull, e, eVal, absRet>>

\* ------------------------------------------------------------------ pop
\* Variant: the emptiness check of pop left out.
PopEmptyNever == FALSE

\* if self.curr_size == 0
PopEmpty == curr_size = 0

\* Variant: pop takes the slot at curr_size, without the - 1.
PopOffsetTop == curr_size

\* let offset = self.curr_size - 1;
PopOffset == curr_size - 1

Pop ==
    /\ Callable
    /\ op' = "pop"
    /\ freeStreak' = 0
    /\ access' = NoAccess
    /\ IF PopEmpty
       THEN /\ msg' = "Failed to pop, Stack is empty!"
            /\ ret' = RetPtr(NULL, 0)
            /\ e' = NullPtr
            /\ eVal' = 0
            /\ ObserverOff
            /\ UNCHANGED curr_size
       ELSE /\ msg' = ""
            /\ ret' = RetPtr(pointer, PopOffset)
            /\ e' = Ptr(pointer, PopOffset)
            /\ eVal' = Load(PopOffset)
            /\ curr_size' = curr_size - 1
            /\ IF phase \in {"push", "pop"}
               THEN /\ phase' = "pop"
                    /\ popped' = Append(popped, Load(PopOffset))
                    /\ UNCHANGED pushed
               ELSE ObserverOff
    /\ AbsPop
    /\ ScnPop
    /\ UNCHANGED <<cap, overflow_checks, life, pointer, blockLive, mem, allocOk,
                   freed, freedNull, fault>>

\* ---------------------------------------------------------------- deref
\* Variant: deref takes the slot at curr_size, without the - 1.
DerefOffsetTop == curr_size

\* let offset = self.curr_size - 1;  (usize: -1 stands for the wrapped
\* usize::MAX, with which pointer.add lands one slot below the block)
DerefOffset == curr_size - 1

Deref ==
    /\ Callable
    /\ op' = "deref"
    /\ freeStreak' = 0
    /\ msg' = ""
    /\ IF curr_size = 0
       THEN IF overflow_checks
            THEN \* attempt to subtract with overflow
                 /\ fault' = "panic"
                 /\ ret' = RetNone
                 /\ access' = NoAccess
            ELSE IF pointer = NULL
            THEN /\ fault' = "segv"
                 /\ ret' = RetNone
                 /\ access' = Access("read", NULL, DerefOffset)
            ELSE \* as_ref() is Some: whatever lies below the block is read
                 /\ \E g \in Bytes : ret' = RetRef(g)
                 /\ access' = Access("read", pointer, DerefOffset)
                 /\ UNCHANGED fault
       ELSE /\ ret' = RetRef(Load(DerefOffset))
            /\ access' = Access("read", pointer, DerefOffset)
            /\ UNCHANGED fault
    /\ ObserverSame
    /\ ScnOff
    /\ UNCHANGED <<cap, overflow_checks, life, pointer, curr_size, blockLive, mem,
                   allocOk, freed, freedNull, e, eVal, abs, absRet>>

\* ---------------------------------------------------------------- empty
\* Variant: empty() compares with 1 in place of 0.
IsEmptyOffByOne == curr_size <= 1

\* self.curr_size == 0
IsEmpty == curr_size = 0

Empty ==
    /\ Callable
    /\ op' = "empty"
    /\ ret' = RetBool(IsEmpty)
    /\ freeStreak' = 0
    /\ msg' = ""
    /\ access' = NoAccess
    /\ ObserverSame
    /\ ScnOff
    /\ UNCHANGED <<cap, overflow_checks, life, pointer, curr_size, blockLive, mem,
                   allocOk, freed, freedNull, fault, e, eVal, abs, absRet>>

Next ==
    \/ New /\ UNCHANGED <<mvars, lvars, dvars>>
    \/ \E v \in Values : Push(v) /\ UNCHANGED <<mvars, lvars, dvars>>
    \/ Pop /\ UNCHANGED <<mvars, lvars, dvars>>
    \/ Deref /\ UNCHANGED <<mvars, lvars, dvars>>
    \/ Empty /\ UNCHANGED <<mvars, lvars, dvars>>
    \/ Free /\ UNCHANGED <<mvars, lvars, dvars>>
    \/ DropStack /\ UNCHANGED <<mvars, lvars, dvars>>

Spec == Init /\ [][Next]_vars

\* ------------------------------------------------------- scenario, cap 3
\* The capacity and the largest value of the concrete scenario of capacity 3:
\* push(1) .. push(4), then four pops.
ScenarioCap == 3
ScenarioMaxVal == 4

InitScenario ==
    /\ cap = ScenarioCap
    /\ InitStack
    /\ MainIdle
    /\ LockIdle
    /\ DemosIdle

NextScenario ==
    \/ New /\ UNCHANGED <<mvars, lvars, dvars>>
    \/ \E v \in 1..ScenarioMaxVal : Push(v) /\ UNCHANGED <<mvars, lvars, dvars>>
    \/ Pop /\ UNCHANGED <<mvars, lvars, dvars>>
    \/ Deref /\ UNCHANGED <<mvars, lvars, dvars>>
    \/ Empty /\ UNCHANGED <<mvars, lvars, dvars>>
    \/ Free /\ UNCHANGED <<mvars, lvars, dvars>>
    \/ DropStack /\ UNCHANGED <<mvars, lvars, dvars>>

SpecScenario == InitScenario /\ [][NextScenario]_vars

\* ------------------------------------------------------------------ main
\* const STACK_SIZE: usize = 10;
STACK_SIZE == 10

InitMain ==
    /\ cap = STACK_SIZE
    /\ InitStack
    /\ pc = "new"
    /\ loop_i = 0
    /\ out = NoOut
    /\ pops = 0
    /\ nullPops = 0
    /\ LockIdle
    /\ DemosIdle

\* let mut stack = FixedSizedStack::<usize, STACK_SIZE>::new();
MainNew ==
    /\ pc = "new"
    /\ New
    /\ pc' = "push"
    /\ loop_i' = 1
    /\ UNCHANGED <<out, pops, nullPops, lvars, dvars>>

\* for i in 1..=STACK_SIZE { stack.push(&i); ...
MainPush ==
    /\ pc = "push"
    /\ Push(loop_i)
    /\ pc' = "pushed"
    /\ UNCHANGED <<loop_i, out, pops, nullPops, lvars, dvars>>

\* ... println!("Pushed {}", i); }
MainPrintPushed ==
    /\ pc = "pushed"
    /\ fault = "none"
    /\ out' = [kind |-> "pushed", popped |-> 0, curr |-> loop_i]
    /\ loop_i' = loop_i + 1
    /\ pc' = IF loop_i + 1 <= STACK_SIZE THEN "push" ELSE "while"
    /\ UNCHANGED <<cap, svars, pops, nullPops, lvars, dvars>>

\* while !stack.empty() {
MainWhile ==
    /\ pc = "while"
    /\ Empty
    /\ pc' = IF ret'.flag THEN "exit" ELSE "pop"
    /\ UNCHANGED <<loop_i, out, pops, nullPops, lvars, dvars>>

\* let e = stack.pop(); if e != std::ptr::null() {
MainPop ==
    /\ pc = "pop"
    /\ Pop
    /\ pops' = pops + 1
    /\ nullPops' = IF e'.base = NULL THEN nullPops + 1 ELSE nullPops
    /\ pc' = IF e'.base = NULL THEN "while" ELSE "check"
    /\ UNCHANGED <<loop_i, out, lvars, dvars>>

\* if stack.empty() {
MainCheck ==
    /\ pc = "check"
    /\ Empty
    /\ pc' = IF ret'.flag THEN "last" ELSE "peek"
    /\ UNCHANGED <<loop_i, out, pops, nullPops, lvars, dvars>>

\* println!("Popped {}, the stack is now empty.", *e);
MainPrintLast ==
    /\ pc = "last"
    /\ fault = "none"
    /\ out' = [kind |-> "last", popped |-> Load(e.off), curr |-> 0]
    /\ pc' = "while"
    /\ UNCHANGED <<cap, svars, loop_i, pops, nullPops, lvars, dvars>>

\* println!("Popped {}, curr item is {}.", *e, *stack);
MainPeek ==
    /\ pc = "peek"
    /\ Deref
    /\ out' = IF fault' = "none"
              THEN [kind |-> "curr", popped |-> Load(e.off), curr |-> ret'.val]
              ELSE out
    /\ pc' = "while"
    /\ UNCHANGED <<loop_i, pops, nullPops, lvars, dvars>>

\* the end of main: `stack` leaves scope
MainExit ==
    /\ pc = "exit"
    /\ DropStack
    /\ pc' = "done"
    /\ UNCHANGED <<loop_i, out, pops, nullPops, lvars, dvars>>

NextMain ==
    \/ MainNew
    \/ MainPush
    \/ MainPrintPushed
    \/ MainWhile
    \/ MainPop
    \/ MainCheck
    \/ MainPrintLast
    \/ MainPeek
    \/ MainExit

\* One thread runs main: it takes its next step whenever it has one.
SpecMain == InitMain /\ [][NextMain]_vars /\ WF_vars(NextMain)

\* ------------------------------------------------------------ shared use
\* Two threads share one stack behind one external mutex. The methods have
\* no synchronisation of their own: each is run statement by statement, every
\* statement reading and writing the fields as they are at that moment, and
\* only taking the mutex looks at the mutex.

\* Variant: the mutex is handed out whether it is held or not.
LockFreeAlways == TRUE

\* lock(): the mutex is handed out when no thread holds it. Giving it back
\* ends the scope of the guard and of what the caller got from the call.
LockFree == lockHolder = 0

SetPc(t, l) == tpc' = [tpc EXCEPT ![t] = l]

\* What no statement of push or pop touches.
StepFrame ==
    UNCHANGED <<cap, overflow_checks, life, pointer, blockLive, allocOk, freed,
                freedNull, freeStreak, phase, pushed, popped, scn, mvars,
                dvars>>

InitShared ==
    /\ cap = N
    /\ InitStack
    /\ MainIdle
    /\ LockIdle
    /\ DemosIdle

\* The stack is constructed before the threads start.
SharedNew ==
    /\ life = "unborn"
    /\ New
    /\ UNCHANGED <<mvars, lvars, dvars>>

Acquire(t) ==
    /\ Callable
    /\ tpc[t] = "idle"
    /\ LockFree
    /\ lockHolder' = t
    /\ SetPc(t, "locked")
    /\ UNCHANGED <<cap, svars, mvars, dvars, treg, targ, pushedBy>>

Release(t) ==
    /\ Callable
    /\ tpc[t] = "unlock"
    /\ lockHolder' = 0
    /\ SetPc(t, "idle")
    /\ pushedBy' = (IF op = "push" /\ msg = "" THEN pushedBy ELSE 0)
    /\ op' = "unlock"
    /\ ret' = RetNone
    /\ msg' = ""
    /\ access' = NoAccess
    /\ e' = NullPtr
    /\ eVal' = 0
    /\ absRet' = 0
    /\ freeStreak' = 0
    /\ UNCHANGED <<cap, overflow_checks, life, pointer, curr_size, blockLive,
                   mem, allocOk, freed, freedNull, fault, phase, pushed,
                   popped, abs, scn, mvars, dvars, treg, targ>>

\* push: if self.curr_size >= N { println!(..); return; }
SharedPushCheck(t, v) ==
    /\ Callable
    /\ tpc[t] = "locked"
    /\ IF PushFull
       THEN /\ msg' = "Failed to push, Stack is full!"
            /\ op' = "push"
            /\ ret' = RetUnit
            /\ SetPc(t, "unlock")
            /\ UNCHANGED targ
       ELSE /\ msg' = ""
            /\ op' = "call"
            /\ ret' = RetNone
            /\ SetPc(t, "push_copy")
            /\ targ' = [targ EXCEPT ![t] = v]
    /\ access' = NoAccess
    /\ AbsPush(v)
    /\ StepFrame
    /\ UNCHANGED <<curr_size, mem, fault, e, eVal, absRet, lockHolder, treg,
                   pushedBy>>

\* push: libc::memcpy(self.pointer.add(self.curr_size), value, size_of::<T>())
SharedPushCopy(t) ==
    /\ Callable
    /\ tpc[t] = "push_copy"
    /\ IF pointer = NULL
       THEN /\ access' = Access("write", NULL, PushSlot)
            /\ fault' = "segv"
            /\ UNCHANGED mem
       ELSE /\ Store(PushSlot, targ[t])
            /\ access' = Access("write", pointer, PushSlot)
            /\ UNCHANGED fault
    /\ SetPc(t, "push_count")
    /\ StepFrame
    /\ UNCHANGED <<curr_size, op, ret, msg, e, eVal, abs, absRet, lockHolder,
                   treg, targ, pushedBy>>

\* push: self.curr_size += 1;
SharedPushCount(t) ==
    /\ Callable
    /\ tpc[t] = "push_count"
    /\ curr_size' = curr_size + 1
    /\ op' = "push"
    /\ ret' = RetUnit
    /\ SetPc(t, "unlock")
    /\ targ' = [targ EXCEPT ![t] = 0]
    /\ pushedBy' = t
    /\ StepFrame
    /\ UNCHANGED <<mem, fault, msg, access, e, eVal, abs, absRet, lockHolder,
                   treg>>

\* pop: if self.curr_size == 0 { println!(..); return std::ptr::null(); }
SharedPopCheck(t) ==
    /\ Callable
    /\ tpc[t] = "locked"
    /\ IF PopEmpty
       THEN /\ msg' = "Failed to pop, Stack is empty!"
            /\ op' = "pop"
            /\ ret' = RetPtr(NULL, 0)
            /\ e' = NullPtr
            /\ eVal' = 0
            /\ SetPc(t, "unlock")
       ELSE /\ msg' = ""
            /\ op' = "call"
            /\ ret' = RetNone
            /\ SetPc(t, "pop_offset")
            /\ UNCHANGED <<e, eVal>>
    /\ access' = NoAccess
    /\ AbsPop
    /\ StepFrame
    /\ UNCHANGED <<curr_size, mem, fault, lockHolder, treg, targ, pushedBy>>

\* pop: let offset = self.curr_size - 1;
SharedPopOffset(t) ==
    /\ Callable
    /\ tpc[t] = "pop_offset"
    /\ treg' = [treg EXCEPT ![t] = PopOffset]
    /\ SetPc(t, "pop_count")
    /\ StepFrame
    /\ UNCHANGED <<curr_size, mem, fault, op, ret, msg, access, e, eVal, abs,
                   absRet, lockHolder, targ, pushedBy>>

\* pop: let res = self.pointer.add(offset); self.curr_size -= 1; res
\* (the caller reads *e before it gives the mutex back)
SharedPopCount(t) ==
    /\ Callable
    /\ tpc[t] = "pop_count"
    /\ curr_size' = curr_size - 1
    /\ ret' = RetPtr(pointer, treg[t])
    /\ e' = Ptr(pointer, treg[t])
    /\ eVal' = Load(treg[t])
    /\ op' = "pop"
    /\ SetPc(t, "unlock")
    /\ treg' = [treg EXCEPT ![t] = 0]
    /\ StepFrame
    /\ UNCHANGED <<mem, fault, msg, access, abs, absRet, lockHolder, targ,
                   pushedBy>>

\* deref reads once; free is one test and one call of the allocator.
SharedDeref(t) ==
    /\ tpc[t] = "locked"
    /\ Deref
    /\ SetPc(t, "unlock")
    /\ UNCHANGED <<mvars, dvars, lockHolder, treg, targ, pushedBy>>

SharedFree(t) ==
    /\ tpc[t] = "locked"
    /\ Free
    /\ SetPc(t, "unlock")
    /\ UNCHANGED <<mvars, dvars, lockHolder, treg, targ, pushedBy>>

NextShared ==
    \/ SharedNew
    \/ \E t \in Threads : Acquire(t)
    \/ \E t \in Threads : Release(t)
    \/ \E t \in Threads, v \in Values : SharedPushCheck(t, v)
    \/ \E t \in Threads : SharedPushCopy(t)
    \/ \E t \in Threads : SharedPushCount(t)
    \/ \E t \in Threads : SharedPopCheck(t)
    \/ \E t \in Threads : SharedPopOffset(t)
    \/ \E t \in Threads : SharedPopCount(t)
    \/ \E t \in Threads : SharedDeref(t)
    \/ \E t \in Threads : SharedFree(t)

SpecShared == InitShared /\ [][NextShared]_vars

\* ------------------------------------------------------- mpsc(): bot chat
\* let qna_ref = Arc::new(vec![(question, answer), ...]);
Qna ==
    << <<"Hi there!", "Hello!">>,
       <<"How's it going?", "Great!">>,
       <<"What's your name?", "My name is Rust">>,
       <<"What's your favorite color?", "Blue">> >>

\* qna_ref_.len()
QnaLen == Len(Qna)

\* qna_ref_[vec_idx].0 and qna_ref_[vec_idx].1 (vec_idx counts from 0)
Question(idx) == Qna[idx + 1][1]
Answer(idx) == Qna[idx + 1][2]

\* println!("Bot {} : {}", bot, text); bot 0 marks a "Failed to .." line.
Line(bot, text) == [bot |-> bot, text |-> text]
FailedSend == Line(0, "Failed to send")
FailedRecv == Line(0, "Failed to recv")

\* A thread that has returned or unwound has dropped the channel ends its
\* closure captured.
Gone(p) == p \in {"done", "panicked"}

ChatFrame == UNCHANGED <<cap, svars, mvars, lvars, cvVars, barVars, mxVars>>

InitChat ==
    /\ cap = N
    /\ InitStack
    /\ MainIdle
    /\ LockIdle
    /\ qpc = "unspawned"
    /\ sent_initial = FALSE
    /\ q_vec_idx = 0
    /\ q_msg = ""
    /\ apc = "unspawned"
    /\ a_vec_idx = 0
    /\ a_msg = ""
    /\ chanQ = <<>>
    /\ chanA = <<>>
    /\ printed = <<>>
    /\ chat_pc = "spawn_q"
    /\ CvIdle
    /\ BarIdle
    /\ MxIdle

\* thread_handles.push(thread::spawn(move || { .. })) for the questioner
ChatSpawnQ ==
    /\ chat_pc = "spawn_q"
    /\ chat_pc' = "spawn_a"
    /\ qpc' = "loop"
    /\ ChatFrame
    /\ UNCHANGED <<sent_initial, q_vec_idx, q_msg, apc, a_vec_idx, a_msg, chanQ,
                   chanA, printed>>

\* thread_handles.push(thread::spawn(move || { .. })) for the answerer
ChatSpawnA ==
    /\ chat_pc = "spawn_a"
    /\ chat_pc' = "join_q"
    /\ apc' = "loop"
    /\ ChatFrame
    /\ UNCHANGED <<qpc, sent_initial, q_vec_idx, q_msg, a_vec_idx, a_msg, chanQ,
                   chanA, printed>>

\* Variant: the questioner never waits for an answer.
QAwaitsNever == FALSE

\* loop { if !sent_initial { .. } else { .. } }
QAwaits == sent_initial

QLoop ==
    /\ qpc = "loop"
    /\ qpc' = (IF QAwaits THEN "recv" ELSE "send_initial")
    /\ ChatFrame
    /\ UNCHANGED <<sent_initial, q_vec_idx, q_msg, apc, a_vec_idx, a_msg, chanQ,
                   chanA, printed, chat_pc>>

\* tx_questioner.send(qna_ref_[vec_idx].0): indexing past the end panics,
\* send fails once the receiving end is dropped. ok is where Ok(_) leads.
QSendTo(ok) ==
    IF q_vec_idx >= QnaLen
    THEN /\ qpc' = "panicked"
         /\ UNCHANGED <<chanQ, printed>>
    ELSE IF Gone(apc)
    THEN /\ printed' = Append(printed, FailedSend)
         /\ qpc' = "exit"
         /\ UNCHANGED chanQ
    ELSE /\ chanQ' = Append(chanQ, Question(q_vec_idx))
         /\ qpc' = ok
         /\ UNCHANGED printed

\* match tx_questioner.send(qna_ref_[vec_idx].0) { .. } of the first question
QSendInitial ==
    /\ qpc = "send_initial"
    /\ QSendTo("sent_initial")
    /\ ChatFrame
    /\ UNCHANGED <<sent_initial, q_vec_idx, q_msg, apc, a_vec_idx, a_msg, chanA,
                   chat_pc>>

\* Ok(_) => { vec_idx += 1; sent_initial = true; }
QSentInitial ==
    /\ qpc = "sent_initial"
    /\ q_vec_idx' = q_vec_idx + 1
    /\ sent_initial' = TRUE
    /\ qpc' = "loop"
    /\ ChatFrame
    /\ UNCHANGED <<q_msg, apc, a_vec_idx, a_msg, chanQ, chanA, printed, chat_pc>>

\* match rx_questioner.recv() { Ok(msg) => .., Err(e) => { print!; break; } }
\* recv blocks while the channel is empty and tx_answerer is alive.
QRecv ==
    /\ qpc = "recv"
    /\ IF chanA # <<>>
       THEN /\ q_msg' = Head(chanA)
            /\ chanA' = Tail(chanA)
            /\ qpc' = "print"
            /\ UNCHANGED printed
       ELSE /\ Gone(apc)
            /\ printed' = Append(printed, FailedRecv)
            /\ qpc' = "exit"
            /\ UNCHANGED <<q_msg, chanA>>
    /\ ChatFrame
    /\ UNCHANGED <<sent_initial, q_vec_idx, apc, a_vec_idx, a_msg, chanQ, chat_pc>>

\* println!("Bot 2 : {}", msg); if vec_idx == qna_ref_.len() { break; }
QPrint ==
    /\ qpc = "print"
    /\ printed' = Append(printed, Line(2, q_msg))
    /\ qpc' = (IF q_vec_idx = QnaLen THEN "exit" ELSE "send")
    /\ ChatFrame
    /\ UNCHANGED <<sent_initial, q_vec_idx, q_msg, apc, a_vec_idx, a_msg, chanQ,
                   chanA, chat_pc>>

\* match tx_questioner.send(qna_ref_[vec_idx].0) { .. } of the next question
QSend ==
    /\ qpc = "send"
    /\ QSendTo("sent")
    /\ ChatFrame
    /\ UNCHANGED <<sent_initial, q_vec_idx, q_msg, apc, a_vec_idx, a_msg, chanA,
                   chat_pc>>

\* Ok(_) => { vec_idx += 1; }
QSent ==
    /\ qpc = "sent"
    /\ q_vec_idx' = q_vec_idx + 1
    /\ qpc' = "loop"
    /\ ChatFrame
    /\ UNCHANGED <<sent_initial, q_msg, apc, a_vec_idx, a_msg, chanQ, chanA,
                   printed, chat_pc>>

\* The closure returns: tx_questioner and rx_questioner are dropped.
QExit ==
    /\ qpc = "exit"
    /\ qpc' = "done"
    /\ ChatFrame
    /\ UNCHANGED <<sent_initial, q_vec_idx, q_msg, apc, a_vec_idx, a_msg, chanQ,
                   chanA, printed, chat_pc>>

\* Variant: the answerer never leaves its loop by itself.
ADoneNever == FALSE

\* if vec_idx == qna_ref_.len() { break; }
ADone == a_vec_idx = QnaLen

ALoop ==
    /\ apc = "loop"
    /\ apc' = (IF ADone THEN "exit" ELSE "recv")
    /\ ChatFrame
    /\ UNCHANGED <<qpc, sent_initial, q_vec_idx, q_msg, a_vec_idx, a_msg, chanQ,
                   chanA, printed, chat_pc>>

\* match rx_answerer.recv() { Ok(msg) => .., Err(e) => { print!; break; } }
ARecv ==
    /\ apc = "recv"
    /\ IF chanQ # <<>>
       THEN /\ a_msg' = Head(chanQ)
            /\ chanQ' = Tail(chanQ)
            /\ apc' = "print"
            /\ UNCHANGED printed
       ELSE /\ Gone(qpc)
            /\ printed' = Append(printed, FailedRecv)
            /\ apc' = "exit"
            /\ UNCHANGED <<a_msg, chanQ>>
    /\ ChatFrame
    /\ UNCHANGED <<qpc, sent_initial, q_vec_idx, q_msg, a_vec_idx, chanA, chat_pc>>

\* println!("Bot 1 : {}", msg);
APrint ==
    /\ apc = "print"
    /\ printed' = Append(printed, Line(1, a_msg))
    /\ apc' = "send"
    /\ ChatFrame
    /\ UNCHANGED <<qpc, sent_initial, q_vec_idx, q_msg, a_vec_idx, a_msg, chanQ,
                   chanA, chat_pc>>

\* match tx_answerer.send(qna_ref_[vec_idx].1) { .. }
ASend ==
    /\ apc = "send"
    /\ IF a_vec_idx >= QnaLen
       THEN /\ apc' = "panicked"
            /\ UNCHANGED <<chanA, printed>>
       ELSE IF Gone(qpc)
       THEN /\ printed' = Append(printed, FailedSend)
            /\ apc' = "exit"
            /\ UNCHANGED chanA
       ELSE /\ chanA' = Append(chanA, Answer(a_vec_idx))
            /\ apc' = "sent"
            /\ UNCHANGED printed
    /\ ChatFrame
    /\ UNCHANGED <<qpc, sent_initial, q_vec_idx, q_msg, a_vec_idx, a_msg, chanQ,
                   chat_pc>>

\* Ok(_) => { vec_idx += 1; }
ASent ==
    /\ apc = "sent"
    /\ a_vec_idx' = a_vec_idx + 1
    /\ apc' = "loop"
    /\ ChatFrame
    /\ UNCHANGED <<qpc, sent_initial, q_vec_idx, q_msg, a_msg, chanQ, chanA,
                   printed, chat_pc>>

\* The closure returns: rx_answerer and tx_answerer are dropped.
AExit ==
    /\ apc = "exit"
    /\ apc' = "done"
    /\ ChatFrame
    /\ UNCHANGED <<qpc, sent_initial, q_vec_idx, q_msg, a_vec_idx, a_msg, chanQ,
                   chanA, printed, chat_pc>>

\* for handle in thread_handles { handle.join().unwrap(); }
ChatJoinQ ==
    /\ chat_pc = "join_q"
    /\ Gone(qpc)
    /\ chat_pc' = (IF qpc = "panicked" THEN "panicked" ELSE "join_a")
    /\ ChatFrame
    /\ UNCHANGED <<qpc, sent_initial, q_vec_idx, q_msg, apc, a_vec_idx, a_msg,
                   chanQ, chanA, printed>>

ChatJoinA ==
    /\ chat_pc = "join_a"
    /\ Gone(apc)
    /\ chat_pc' = (IF apc = "panicked" THEN "panicked" ELSE "end")
    /\ ChatFrame
    /\ UNCHANGED <<qpc, sent_initial, q_vec_idx, q_msg, apc, a_vec_idx, a_msg,
                   chanQ, chanA, printed>>

Questioner ==
    QLoop \/ QSendInitial \/ QSentInitial \/ QRecv \/ QPrint \/ QSend \/ QSent
        \/ QExit

Answerer == ALoop \/ ARecv \/ APrint \/ ASend \/ ASent \/ AExit

ChatTest == ChatSpawnQ \/ ChatSpawnA \/ ChatJoinQ \/ ChatJoinA

NextChat == Questioner \/ Answerer \/ ChatTest

\* Every thread that can take a step is scheduled again.
SpecChat ==
    /\ InitChat
    /\ [][NextChat]_vars
    /\ WF_vars(Questioner)
    /\ WF_vars(Answerer)
    /\ WF_vars(ChatTest)

\* ------------------------------------------------------------- condvar()
\* for i in 0..8
CvPushes == 8

CvFrame ==
    UNCHANGED <<cap, svars, mvars, lvars, chatVars, barVars, mxVars,
                cv_spurious>>

\* Condvar::wait is documented to be susceptible to spurious wakeups: both
\* kinds of platform are started from.
InitCondvar ==
    /\ cap = N
    /\ InitStack
    /\ MainIdle
    /\ LockIdle
    /\ ChatIdle
    /\ cv_spurious \in BOOLEAN
    /\ CvStart
    /\ cv_test_pc = "spawn_push"
    /\ BarIdle
    /\ MxIdle

\* thread_handles.push(thread::spawn(move || { .. })) for the pushing thread
CvSpawnPush ==
    /\ cv_test_pc = "spawn_push"
    /\ cv_test_pc' = "spawn_pop"
    /\ cv_push_pc' = "loop"
    /\ CvFrame
    /\ UNCHANGED <<cv_stack, cv_stack_lock, cv_done, cv_done_lock, cv_push_i,
                   cv_pop_pc, cv_popped>>

\* thread_handles.push(thread::spawn(move || { .. })) for the popping thread
CvSpawnPop ==
    /\ cv_test_pc = "spawn_pop"
    /\ cv_test_pc' = "join_push"
    /\ cv_pop_pc' = "lock_done"
    /\ CvFrame
    /\ UNCHANGED <<cv_stack, cv_stack_lock, cv_done, cv_done_lock, cv_push_pc,
                   cv_push_i, cv_popped>>

\* for i in 0..8 { let str = "String#".to_string() + &i.to_string();
CvPushLoop ==
    /\ cv_push_pc = "loop"
    /\ cv_push_pc' = (IF cv_push_i < CvPushes THEN "lock" ELSE "lock_done")
    /\ CvFrame
    /\ UNCHANGED <<cv_stack, cv_stack_lock, cv_done, cv_done_lock, cv_push_i,
                   cv_pop_pc, cv_popped, cv_test_pc>>

\* stack_ref_.lock().unwrap()
CvPushLock ==
    /\ cv_push_pc = "lock"
    /\ cv_stack_lock = 0
    /\ cv_stack_lock' = PUSHER
    /\ cv_push_pc' = "push"
    /\ CvFrame
    /\ UNCHANGED <<cv_stack, cv_done, cv_done_lock, cv_push_i, cv_pop_pc,
                   cv_popped, cv_test_pc>>

\* .push(str.clone()); the temporary guard is dropped with the statement.
CvPushPush ==
    /\ cv_push_pc = "push"
    /\ cv_stack' = Append(cv_stack, cv_push_i)
    /\ cv_stack_lock' = 0
    /\ cv_push_pc' = "pushed"
    /\ CvFrame
    /\ UNCHANGED <<cv_done, cv_done_lock, cv_push_i, cv_pop_pc, cv_popped,
                   cv_test_pc>>

\* println!("Pushed : {}", str); thread::sleep(..); and the next i
CvPushNext ==
    /\ cv_push_pc = "pushed"
    /\ cv_push_i' = cv_push_i + 1
    /\ cv_push_pc' = "loop"
    /\ CvFrame
    /\ UNCHANGED <<cv_stack, cv_stack_lock, cv_done, cv_done_lock, cv_pop_pc,
                   cv_popped, cv_test_pc>>

\* let mut done = done_mutex.lock().unwrap();
CvPushLockDone ==
    /\ cv_push_pc = "lock_done"
    /\ cv_done_lock = 0
    /\ cv_done_lock' = PUSHER
    /\ cv_push_pc' = "set_done"
    /\ CvFrame
    /\ UNCHANGED <<cv_stack, cv_stack_lock, cv_done, cv_push_i, cv_pop_pc,
                   cv_popped, cv_test_pc>>

\* *done = true;
CvSetDone ==
    /\ cv_push_pc = "set_done"
    /\ cv_done' = TRUE
    /\ cv_push_pc' = "notify"
    /\ CvFrame
    /\ UNCHANGED <<cv_stack, cv_stack_lock, cv_done_lock, cv_push_i, cv_pop_pc,
                   cv_popped, cv_test_pc>>

\* cvar.notify_one(): wakes a thread blocked in wait, if there is one; the
\* notification is not kept for a thread that waits later.
CvNotify ==
    /\ cv_push_pc = "notify"
    /\ cv_pop_pc' = (IF cv_pop_pc = "waiting" THEN "woken" ELSE cv_pop_pc)
    /\ cv_push_pc' = "exit"
    /\ CvFrame
    /\ UNCHANGED <<cv_stack, cv_stack_lock, cv_done, cv_done_lock, cv_push_i,
                   cv_popped, cv_test_pc>>

\* The closure returns: the guard `done` is dropped.
CvPushExit ==
    /\ cv_push_pc = "exit"
    /\ cv_done_lock' = 0
    /\ cv_push_pc' = "done"
    /\ CvFrame
    /\ UNCHANGED <<cv_stack, cv_stack_lock, cv_done, cv_push_i, cv_pop_pc,
                   cv_popped, cv_test_pc>>

\* done_mutex.lock().unwrap(), the argument of cvar.wait
CvPopLockDone ==
    /\ cv_pop_pc = "lock_done"
    /\ cv_done_lock = 0
    /\ cv_done_lock' = POPPER
    /\ cv_pop_pc' = "wait"
    /\ CvFrame
    /\ UNCHANGED <<cv_stack, cv_stack_lock, cv_done, cv_push_pc, cv_push_i,
                   cv_popped, cv_test_pc>>

\* cvar.wait(guard): unlocks done_mutex and blocks, in one step. The value
\* of `done` is not looked at.
CvWait ==
    /\ cv_pop_pc = "wait"
    /\ cv_done_lock' = 0
    /\ cv_pop_pc' = "waiting"
    /\ CvFrame
    /\ UNCHANGED <<cv_stack, cv_stack_lock, cv_done, cv_push_pc, cv_push_i,
                   cv_popped, cv_test_pc>>

\* wait wakes up without a notification.
CvSpuriousWake ==
    /\ cv_spurious
    /\ cv_pop_pc = "waiting"
    /\ cv_pop_pc' = "woken"
    /\ CvFrame
    /\ UNCHANGED <<cv_stack, cv_stack_lock, cv_done, cv_done_lock, cv_push_pc,
                   cv_push_i, cv_popped, cv_test_pc>>

\* wait re-acquires done_mutex before it returns; the guard it returns is
\* dropped with the statement.
CvWaitReturn ==
    /\ cv_pop_pc = "woken"
    /\ cv_done_lock = 0
    /\ cv_pop_pc' = "print"
    /\ CvFrame
    /\ UNCHANGED <<cv_stack, cv_stack_lock, cv_done, cv_done_lock, cv_push_pc,
                   cv_push_i, cv_popped, cv_test_pc>>

\* println!("The pushing thread seems to be done, let's pop the stack");
CvPopPrint ==
    /\ cv_pop_pc = "print"
    /\ cv_pop_pc' = "lock"
    /\ CvFrame
    /\ UNCHANGED <<cv_stack, cv_stack_lock, cv_done, cv_done_lock, cv_push_pc,
                   cv_push_i, cv_popped, cv_test_pc>>

\* while let Some(str) = stack_ref_.lock().unwrap()
CvPopLock ==
    /\ cv_pop_pc = "lock"
    /\ cv_stack_lock = 0
    /\ cv_stack_lock' = POPPER
    /\ cv_pop_pc' = "pop"
    /\ CvFrame
    /\ UNCHANGED <<cv_stack, cv_done, cv_done_lock, cv_push_pc, cv_push_i,
                   cv_popped, cv_test_pc>>

\* .pop(): Some(str) runs the body; None leaves the loop and drops the guard.
CvPopPop ==
    /\ cv_pop_pc = "pop"
    /\ IF cv_stack # <<>>
       THEN /\ cv_popped' = Append(cv_popped, cv_stack[Len(cv_stack)])
            /\ cv_stack' = SubSeq(cv_stack, 1, Len(cv_stack) - 1)
            /\ cv_pop_pc' = "popped"
            /\ UNCHANGED cv_stack_lock
       ELSE /\ cv_stack_lock' = 0
            /\ cv_pop_pc' = "done"
            /\ UNCHANGED <<cv_stack, cv_popped>>
    /\ CvFrame
    /\ UNCHANGED <<cv_done, cv_done_lock, cv_push_pc, cv_push_i, cv_test_pc>>

\* println!("Popped  {}", str); the guard is dropped at the end of the body.
CvPopPrinted ==
    /\ cv_pop_pc = "popped"
    /\ cv_stack_lock' = 0
    /\ cv_pop_pc' = "lock"
    /\ CvFrame
    /\ UNCHANGED <<cv_stack, cv_done, cv_done_lock, cv_push_pc, cv_push_i,
                   cv_popped, cv_test_pc>>

\* for handle in thread_handles { handle.join().unwrap(); }
CvJoinPush ==
    /\ cv_test_pc = "join_push"
    /\ cv_push_pc = "done"
    /\ cv_test_pc' = "join_pop"
    /\ CvFrame
    /\ UNCHANGED <<cv_stack, cv_stack_lock, cv_done, cv_done_lock, cv_push_pc,
                   cv_push_i, cv_pop_pc, cv_popped>>

CvJoinPop ==
    /\ cv_test_pc = "join_pop"
    /\ cv_pop_pc = "done"
    /\ cv_test_pc' = "end"
    /\ CvFrame
    /\ UNCHANGED <<cv_stack, cv_stack_lock, cv_done, cv_done_lock, cv_push_pc,
                   cv_push_i, cv_pop_pc, cv_popped>>

CvPusher ==
    CvPushLoop \/ CvPushLock \/ CvPushPush \/ CvPushNext \/ CvPushLockDone
        \/ CvSetDone \/ CvNotify \/ CvPushExit

CvPopper ==
    CvPopLockDone \/ CvWait \/ CvWaitReturn \/ CvPopPrint \/ CvPopLock
        \/ CvPopPop \/ CvPopPrinted

CvTest == CvSpawnPush \/ CvSpawnPop \/ CvJoinPush \/ CvJoinPop

NextCondvar == CvPusher \/ CvPopper \/ CvSpuriousWake \/ CvTest

\* Every thread that can take a step is scheduled again; nothing makes a
\* spurious wakeup happen.
SpecCondvar ==
    /\ InitCondvar
    /\ [][NextCondvar]_vars
    /\ WF_vars(CvPusher)
    /\ WF_vars(CvPopper)
    /\ WF_vars(CvTest)

\* ------------------------------------------------------------- barrier()
BarFrame == UNCHANGED <<cap, svars, mvars, lvars, chatVars, cvVars, mxVars>>

InitBarrier ==
    /\ cap = N
    /\ InitStack
    /\ MainIdle
    /\ LockIdle
    /\ ChatIdle
    /\ CvIdle
    /\ BarStart
    /\ bar_test_pc = "spawn"
    /\ MxIdle

\* Variant: a barrier for one thread fewer than are spawned.
BarrierSizeShort == THREADS_N - 1

\* let barrier = Arc::new(Barrier::new(THREADS_N));
BarrierSize == THREADS_N

BarGoto(t, l) == bar_pc' = [bar_pc EXCEPT ![t] = l]

\* for _ in 0..THREADS_N { thread_handles.push(thread::spawn(move || { .. })); }
BarSpawn ==
    /\ bar_test_pc = "spawn"
    /\ IF bar_test_k < THREADS_N
       THEN /\ BarGoto(bar_test_k + 1, "hello")
            /\ bar_test_k' = bar_test_k + 1
            /\ UNCHANGED bar_test_pc
       ELSE /\ bar_test_pc' = "join"
            /\ bar_test_k' = 0
            /\ UNCHANGED bar_pc
    /\ BarFrame
    /\ UNCHANGED <<bar_local_gen, bar_count, bar_generation>>

\* println!("Hello Rust Fans!");
BarHello(t) ==
    /\ bar_pc[t] = "hello"
    /\ BarGoto(t, "great")
    /\ BarFrame
    /\ UNCHANGED <<bar_local_gen, bar_count, bar_generation, bar_test_pc,
                   bar_test_k>>

\* println!("Barriers are great!");
BarGreat(t) ==
    /\ bar_pc[t] = "great"
    /\ BarGoto(t, "wait1")
    /\ BarFrame
    /\ UNCHANGED <<bar_local_gen, bar_count, bar_generation, bar_test_pc,
                   bar_test_k>>

\* barrier.wait(), arriving: the thread that completes the group resets the
\* count, starts the next generation and goes on; the others block.
BarArrive(t, at, blocked, after) ==
    /\ bar_pc[t] = at
    /\ bar_local_gen' = [bar_local_gen EXCEPT ![t] = bar_generation]
    /\ IF bar_count + 1 < BarrierSize
       THEN /\ bar_count' = bar_count + 1
            /\ BarGoto(t, blocked)
            /\ UNCHANGED bar_generation
       ELSE /\ bar_count' = 0
            /\ bar_generation' = bar_generation + 1
            /\ BarGoto(t, after)
    /\ BarFrame
    /\ UNCHANGED <<bar_test_pc, bar_test_k>>

\* barrier.wait(), leaving: a blocked thread goes on once the generation it
\* arrived in is over.
BarLeave(t, blocked, after) ==
    /\ bar_pc[t] = blocked
    /\ bar_generation # bar_local_gen[t]
    /\ BarGoto(t, after)
    /\ BarFrame
    /\ UNCHANGED <<bar_local_gen, bar_count, bar_generation, bar_test_pc,
                   bar_test_k>>

\* the first barrier.wait();
BarWait1(t) ==
    \/ BarArrive(t, "wait1", "blocked1", "know")
    \/ BarLeave(t, "blocked1", "know")

\* println!("know you know how barriers work.");
BarKnow(t) ==
    /\ bar_pc[t] = "know"
    /\ BarGoto(t, "wait2")
    /\ BarFrame
    /\ UNCHANGED <<bar_local_gen, bar_count, bar_generation, bar_test_pc,
                   bar_test_k>>

\* the second barrier.wait();
BarWait2(t) ==
    \/ BarArrive(t, "wait2", "blocked2", "bye")
    \/ BarLeave(t, "blocked2", "bye")

\* println!("Have a good day!"); and the closure returns
BarBye(t) ==
    /\ bar_pc[t] = "bye"
    /\ BarGoto(t, "done")
    /\ BarFrame
    /\ UNCHANGED <<bar_local_gen, bar_count, bar_generation, bar_test_pc,
                   bar_test_k>>

\* for handle in thread_handles { handle.join().unwrap(); }
BarJoin ==
    /\ bar_test_pc = "join"
    /\ IF bar_test_k < THREADS_N
       THEN /\ bar_pc[bar_test_k + 1] = "done"
            /\ bar_test_k' = bar_test_k + 1
            /\ UNCHANGED bar_test_pc
       ELSE /\ bar_test_pc' = "end"
            /\ UNCHANGED bar_test_k
    /\ BarFrame
    /\ UNCHANGED <<bar_pc, bar_local_gen, bar_count, bar_generation>>

NextBarrier ==
    \/ BarSpawn
    \/ \E t \in BarThreads : BarHello(t)
    \/ \E t \in BarThreads : BarGreat(t)
    \/ \E t \in BarThreads : BarWait1(t)
    \/ \E t \in BarThreads : BarKnow(t)
    \/ \E t \in BarThreads : BarWait2(t)
    \/ \E t \in BarThreads : BarBye(t)
    \/ BarJoin

SpecBarrier == InitBarrier /\ [][NextBarrier]_vars

\* The messages thread t has printed so far, of its four.
BarPrinted(t) ==
    CASE bar_pc[t] \in {"unspawned", "hello"} -> 0
      [] bar_pc[t] = "great" -> 1
      [] bar_pc[t] \in {"wait1", "blocked1", "know"} -> 2
      [] bar_pc[t] \in {"wait2", "blocked2", "bye"} -> 3
      [] bar_pc[t] = "done" -> 4

\* --------------------------------------------------------------- mutex()
\* const STACK_SIZE: usize = 10; of mutex()
MX_STACK_SIZE == 10

MxFrame == UNCHANGED <<cap, svars, mvars, lvars, chatVars, cvVars, barVars>>

InitMutex ==
    /\ cap = N
    /\ InitStack
    /\ MainIdle
    /\ LockIdle
    /\ ChatIdle
    /\ CvIdle
    /\ BarIdle
    /\ MxStart
    /\ mx_test_pc = "spawn_push"

\* thread_handles.push(thread::spawn(move || { .. })) for the pushing thread
MxSpawnPush ==
    /\ mx_test_pc = "spawn_push"
    /\ mx_test_pc' = "spawn_pop"
    /\ mx_push_pc' = "loop"
    /\ MxFrame
    /\ UNCHANGED <<mx_stack, mx_lock, mx_poisoned, mx_push_i, mx_pushed,
                   mx_poison_seen, mx_pop_pc, mx_pop_i, mx_reported>>

\* thread_handles.push(thread::spawn(move || { .. })) for the popping thread
MxSpawnPop ==
    /\ mx_test_pc = "spawn_pop"
    /\ mx_test_pc' = "join_push"
    /\ mx_pop_pc' = "loop"
    /\ MxFrame
    /\ UNCHANGED <<mx_stack, mx_lock, mx_poisoned, mx_push_pc, mx_push_i,
                   mx_pushed, mx_poison_seen, mx_pop_i, mx_reported>>

\* for i in 0..STACK_SIZE { let str = "String#".to_string() + &i.to_string();
MxPushLoop ==
    /\ mx_push_pc = "loop"
    /\ mx_push_pc' = (IF mx_push_i < MX_STACK_SIZE THEN "lock" ELSE "done")
    /\ MxFrame
    /\ UNCHANGED <<mx_stack, mx_lock, mx_poisoned, mx_push_i, mx_pushed,
                   mx_poison_seen, mx_pop_pc, mx_pop_i, mx_test_pc, mx_reported>>

\* Variant: the pusher unwraps the result of lock().
OnPoisonedUnwrap == "panicked"

\* Err(poisoned) => { println!(..); poisoned.into_inner() }: the pusher goes
\* on to push with the guard.
OnPoisoned == "push"

\* let mut stack = match stack_ref_.lock() { Ok(guard) => guard,
\*                                           Err(poisoned) => { .. } };
\* A guard dropped by a thread that is not panicking leaves the flag alone.
MxPushLock ==
    /\ mx_push_pc = "lock"
    /\ mx_lock = 0
    /\ IF mx_poisoned
       THEN /\ mx_push_pc' = OnPoisoned
            /\ mx_lock' = (IF OnPoisoned = "push" THEN PUSHER ELSE 0)
            /\ mx_poison_seen' = mx_poison_seen + 1
       ELSE /\ mx_push_pc' = "push"
            /\ mx_lock' = PUSHER
            /\ UNCHANGED mx_poison_seen
    /\ MxFrame
    /\ UNCHANGED <<mx_stack, mx_poisoned, mx_push_i, mx_pushed, mx_pop_pc,
                   mx_pop_i, mx_test_pc, mx_reported>>

\* stack.push(str.clone()); println!("Pushed : {}", str);
MxPushPush ==
    /\ mx_push_pc = "push"
    /\ mx_stack' = Append(mx_stack, mx_push_i)
    /\ mx_pushed' = mx_pushed + 1
    /\ mx_push_pc' = "sleep"
    /\ MxFrame
    /\ UNCHANGED <<mx_lock, mx_poisoned, mx_push_i, mx_poison_seen, mx_pop_pc,
                   mx_pop_i, mx_test_pc, mx_reported>>

\* thread::sleep(..); } : the guard `stack` lives to the end of the loop
\* body, so the mutex is given back only after the sleep.
MxPushSleep ==
    /\ mx_push_pc = "sleep"
    /\ mx_lock' = 0
    /\ mx_push_i' = mx_push_i + 1
    /\ mx_push_pc' = "loop"
    /\ MxFrame
    /\ UNCHANGED <<mx_stack, mx_poisoned, mx_pushed, mx_poison_seen, mx_pop_pc,
                   mx_pop_i, mx_test_pc, mx_reported>>

\* for i in 0..STACK_SIZE {
MxPopLoop ==
    /\ mx_pop_pc = "loop"
    /\ mx_pop_pc' = (IF mx_pop_i < MX_STACK_SIZE THEN "lock" ELSE "done")
    /\ MxFrame
    /\ UNCHANGED <<mx_stack, mx_lock, mx_poisoned, mx_push_pc, mx_push_i,
                   mx_pushed, mx_poison_seen, mx_pop_i, mx_test_pc, mx_reported>>

\* stack_ref_.lock().unwrap(): unwrap panics on a poisoned mutex.
MxPopLock ==
    /\ mx_pop_pc = "lock"
    /\ mx_lock = 0
    /\ IF mx_poisoned
       THEN /\ mx_pop_pc' = "panicked"
            /\ UNCHANGED mx_lock
       ELSE /\ mx_pop_pc' = "pop"
            /\ mx_lock' = POPPER
    /\ MxFrame
    /\ UNCHANGED <<mx_stack, mx_poisoned, mx_push_pc, mx_push_i, mx_pushed,
                   mx_poison_seen, mx_pop_i, mx_test_pc, mx_reported>>

\* if let Some(str) = ...pop() { if i == 2 { panic!(..); } .. }
\* The temporary guard lives to the end of the if let: the panic unwinds
\* with the mutex held, which poisons and unlocks it. On None the guard is
\* dropped and the thread goes to sleep.
MxPopPop ==
    /\ mx_pop_pc = "pop"
    /\ IF mx_stack # <<>>
       THEN /\ mx_stack' = SubSeq(mx_stack, 1, Len(mx_stack) - 1)
            /\ IF mx_pop_i = 2
               THEN /\ mx_pop_pc' = "panicked"
                    /\ mx_poisoned' = TRUE
                    /\ mx_lock' = 0
               ELSE /\ mx_pop_pc' = "print"
                    /\ UNCHANGED <<mx_poisoned, mx_lock>>
       ELSE /\ mx_pop_pc' = "sleep"
            /\ mx_lock' = 0
            /\ UNCHANGED <<mx_stack, mx_poisoned>>
    /\ MxFrame
    /\ UNCHANGED <<mx_push_pc, mx_push_i, mx_pushed, mx_poison_seen, mx_pop_i,
                   mx_test_pc, mx_reported>>

\* println!("Popped  {}", str); } : the guard is dropped
MxPopPrint ==
    /\ mx_pop_pc = "print"
    /\ mx_lock' = 0
    /\ mx_pop_pc' = "sleep"
    /\ MxFrame
    /\ UNCHANGED <<mx_stack, mx_poisoned, mx_push_pc, mx_push_i, mx_pushed,
                   mx_poison_seen, mx_pop_i, mx_test_pc, mx_reported>>

\* thread::sleep(Duration::from_millis(20)); }
MxPopSleep ==
    /\ mx_pop_pc = "sleep"
    /\ mx_pop_i' = mx_pop_i + 1
    /\ mx_pop_pc' = "loop"
    /\ MxFrame
    /\ UNCHANGED <<mx_stack, mx_lock, mx_poisoned, mx_push_pc, mx_push_i,
                   mx_pushed, mx_poison_seen, mx_test_pc, mx_reported>>

\* handle.join().unwrap_or_else(|e| { println!("One of the threads has
\* panicked!"); }) for the thread at position p
MxJoined(p, next) ==
    /\ p \in {"done", "panicked"}
    /\ mx_reported' = mx_reported + (IF p = "panicked" THEN 1 ELSE 0)
    /\ mx_test_pc' = next
    /\ MxFrame
    /\ UNCHANGED <<mx_stack, mx_lock, mx_poisoned, mx_push_pc, mx_push_i,
                   mx_pushed, mx_poison_seen, mx_pop_pc, mx_pop_i>>

MxJoinPush ==
    /\ mx_test_pc = "join_push"
    /\ MxJoined(mx_push_pc, "join_pop")

MxJoinPop ==
    /\ mx_test_pc = "join_pop"
    /\ MxJoined(mx_pop_pc, "end")

MxPusher == MxPushLoop \/ MxPushLock \/ MxPushPush \/ MxPushSleep

MxPopper == MxPopLoop \/ MxPopLock \/ MxPopPop \/ MxPopPrint \/ MxPopSleep

MxTest == MxSpawnPush \/ MxSpawnPop \/ MxJoinPush \/ MxJoinPop

NextMutex == MxPusher \/ MxPopper \/ MxTest

\* Every thread that can take a step is scheduled again.
SpecMutex ==
    /\ InitMutex
    /\ [][NextMutex]_vars
    /\ WF_vars(MxPusher)
    /\ WF_vars(MxPopper)
    /\ WF_vars(MxTest)

TypeOK ==
    /\ life \in {"unborn", "alive", "dropped"}
    /\ pointer \in {NULL, BLK}
    /\ curr_size \in Nat
    /\ mem \in [Slots -> Bytes]
    /\ fault \in {"none", "panic", "segv", "abort"}
    /\ freed \in Nat
    /\ freeStreak \in 0..2
    /\ phase \in {"off", "push", "pop"}


FullMsg == "Failed to push, Stack is full!"
EmptyMsg == "Failed to pop, Stack is empty!"

\* =================================================================== claims

\* C1: in every reachable state, under every sequence of new, push, pop,
\* deref, empty and free calls, the element count is within 0..N.
C1_SizeWithinCapacity == curr_size \in 0..N

\* A push was declined at curr_size = N after the stack had been filled.
C1_Witness == op = "push" /\ msg = FullMsg /\ curr_size = N

\* C2: LIFO law. After k <= N pushes on a fresh stack, the values read
\* through the results of the pops that follow are the pushed values in
\* reverse order of insertion.
C2_LIFO ==
    phase = "pop" =>
        /\ Len(popped) <= Len(pushed)
        /\ \A i \in 1..Len(popped) : popped[i] = pushed[Len(pushed) + 1 - i]

\* N values, not all equal, were pushed and all N were popped again.
C2_Witness ==
    /\ phase = "pop"
    /\ Len(pushed) = N
    /\ Len(popped) = N
    /\ pushed[1] # pushed[N]

\* C3: the allocator's free is never called twice on the block of one
\* instance, and once the stack has gone out of scope it has been called
\* exactly once on a block that malloc returned (and not at all when malloc
\* returned null), whatever explicit free() calls came before.
C3_ReleasedExactlyOnce ==
    /\ freed <= 1
    /\ life = "dropped" => freed = (IF allocOk THEN 1 ELSE 0)

\* Drop ran after an explicit free(): its own free() found the pointer null.
C3_Witness ==
    /\ life = "dropped"
    /\ op = "drop"
    /\ allocOk
    /\ freed = 1
    /\ ret = RetBool(FALSE)

\* C4 (as claimed): no method reads or writes through self.pointer while it
\* is null.
C4_NoAccessThroughNull == access.kind # "none" => access.base # NULL

\* C5 (as claimed): what the caller received from pop stays valid and
\* unchanged under every later push, pop and release.
C5_PoppedValueOwned ==
    e.base # NULL => (blockLive /\ Load(e.off) = eVal)

\* C6: a push at curr_size = N changes neither curr_size, nor the pointer,
\* nor any slot of the block, nor the allocation.
C6_FullPushNoMutation ==
    [][(op' = "push" /\ curr_size = N) =>
          /\ curr_size' = curr_size
          /\ pointer' = pointer
          /\ mem' = mem
          /\ blockLive' = blockLive
          /\ fault' = fault
          /\ msg' = FullMsg]_vars

\* A push was declined on a stack whose N slots all hold pushed values.
C6_Witness ==
    /\ op = "push"
    /\ msg = FullMsg
    /\ pointer = BLK
    /\ \A i \in Slots : mem[i] \in Values

\* C7 (as claimed): a push declined at capacity returns an error value, so
\* its result differs from the result of a successful push.
C7_DeclinedPushReturnsError ==
    (op = "push" /\ msg = FullMsg) => (ret.kind = "err" /\ ret # RetUnit)

\* C8: a pop at curr_size = 0 returns the null pointer, leaves curr_size at
\* 0, touches neither the block nor the allocation and does not fault; no
\* pop ever takes curr_size below 0.
C8_EmptyPopNoOp ==
    [][/\ (op' = "pop" /\ curr_size = 0) =>
             /\ ret' = RetPtr(NULL, 0)
             /\ curr_size' = 0
             /\ mem' = mem
             /\ pointer' = pointer
             /\ blockLive' = blockLive
             /\ access' = NoAccess
             /\ fault' = "none"
       /\ op' = "pop" => curr_size' >= 0]_vars

\* A pop on an allocated, empty stack returned null.
C8_Witness ==
    /\ op = "pop"
    /\ msg = EmptyMsg
    /\ ret = RetPtr(NULL, 0)
    /\ pointer = BLK
    /\ curr_size = 0

\* C9 (as claimed): deref at curr_size = 0 yields the empty result: no
\* panic, no fault, no access outside the block.
C9_EmptyPeekIsEmpty ==
    (op = "deref" /\ curr_size = 0) =>
        /\ fault = "none"
        /\ ret = RetNone
        /\ access = NoAccess

\* C10: free() is idempotent. After every call of it the pointer is null
\* and curr_size is 0, with no fault raised; a call that directly follows
\* another one returns false, reaches no allocator call and changes nothing.
C10_FreeIdempotent ==
    [][/\ op' = "free" =>
             /\ pointer' = NULL
             /\ curr_size' = 0
             /\ fault' = "none"
       /\ (op' = "free" /\ freeStreak >= 1) =>
             /\ ret' = RetBool(FALSE)
             /\ UNCHANGED <<pointer, curr_size, blockLive, mem, freed, freedNull>>]_vars

\* free() was called twice in a row on a stack whose allocation succeeded.
C10_Witness ==
    /\ op = "free"
    /\ freeStreak = 2
    /\ allocOk
    /\ freed = 1
    /\ ret = RetBool(FALSE)

\* C11: a null block pointer is never passed to the allocator's free, neither
\* by free() nor by Drop; an instance whose malloc failed reaches no
\* allocator free at all.
C11_NullNeverFreed ==
    /\ ~freedNull
    /\ (life # "unborn" /\ ~allocOk) => (freed = 0 /\ pointer = NULL)

\* malloc failed, free() was called and then the stack was dropped.
C11_Witness ==
    /\ ~allocOk
    /\ op = "drop"
    /\ freeStreak = 2
    /\ ret = RetBool(FALSE)

\* C12: a pop at curr_size > 0 takes curr_size down by exactly 1 and returns
\* (a pointer to) the element of the most recent push not yet popped; no
\* slot changes.
C12_PopReturnsTop ==
    [][(op' = "pop" /\ curr_size > 0) =>
          /\ curr_size' = curr_size - 1
          /\ ret' = RetPtr(pointer, curr_size - 1)
          /\ eVal' = mem[curr_size - 1]
          /\ Len(abs) > 0
          /\ eVal' = abs[Len(abs)]
          /\ mem' = mem
          /\ fault' = "none"]_vars

\* A pop left a non-empty stack whose new top differs from the popped value.
C12_Witness ==
    /\ op = "pop"
    /\ ret.base = BLK
    /\ curr_size > 0
    /\ eVal # mem[curr_size - 1]

C14_PeekReturnsTop ==
    [][(op' = "deref" /\ curr_size > 0) =>
          /\ ret' = RetRef(mem[curr_size - 1])
          /\ access' = Access("read", pointer, curr_size - 1)
          /\ Len(abs) > 0
          /\ ret'.val = abs[Len(abs)]
          /\ UNCHANGED <<curr_size, mem, pointer, blockLive, abs>>
          /\ fault' = "none"]_vars

\* deref on a stack of at least two elements whose top differs from the bottom.
C14_Witness ==
    /\ op = "deref"
    /\ ret.kind = "ref"
    /\ curr_size > 1
    /\ ret.val = mem[curr_size - 1]
    /\ ret.val # mem[0]

\* C16: a stack constructed after an earlier one was filled and released has
\* curr_size 0, reports empty, and a pop on it returns null, whatever the
\* block still holds.
C16_RoundTripEmpty ==
    [][/\ op' = "new" => (curr_size' = 0 /\ abs' = <<>>)
       /\ (op = "new" /\ op' = "empty") => ret' = RetBool(TRUE)
       /\ (op = "new" /\ op' = "pop") =>
             (ret' = RetPtr(NULL, 0) /\ curr_size' = 0 /\ mem' = mem)]_vars

\* A stack was constructed on the block an earlier stack had filled.
C16_Witness ==
    /\ op = "new"
    /\ pointer = BLK
    /\ curr_size = 0
    /\ \A i \in Slots : mem[i] \in Values

\* C18: while the stack holds its block, slots 0..curr_size-1 are, in order,
\* the abstract bounded sequence fed the same push and pop calls, and a
\* non-empty pop returns the element the abstract pop removed.
C18_Refinement ==
    (life = "alive" /\ allocOk /\ freed = 0) =>
        /\ curr_size = Len(abs)
        /\ \A i \in 1..Len(abs) : mem[i - 1] = abs[i]
        /\ (op = "pop" /\ ret.base # NULL) => eVal = absRet

\* The stack was filled to capacity by pushes and pops in mixed order.
C18_Witness ==
    /\ life = "alive"
    /\ allocOk
    /\ freed = 0
    /\ Len(abs) = cap
    /\ phase = "off"
    /\ op = "push"
    /\ msg = ""

\* C15 (as claimed): with capacity 3, push(1), push(2), push(3) succeed,
\* push(4) fails with CapacityExceeded and changes nothing, the next three
\* pops return 3, 2, 1 and a fourth pop returns empty.
C15_Cap3Trace ==
    cap = ScenarioCap =>
        /\ scn \in 1..3 => (curr_size = scn /\ msg = "" /\ mem[scn - 1] = scn)
        /\ scn = 4 =>
             /\ curr_size = 3
             /\ \A i \in Slots : mem[i] = i + 1
             /\ ret.kind = "err"
        /\ scn \in 5..7 => (ret.base = BLK /\ eVal = 8 - scn /\ curr_size = 7 - scn)
        /\ scn = 8 => (ret = RetPtr(NULL, 0) /\ curr_size = 0)

\* The same trace with the result of push(4) left aside: the declined push
\* prints the notice and changes nothing, and the pops read 3, 2, 1, null.
C15_TraceApartFromResult ==
    cap = ScenarioCap =>
        /\ scn \in 1..3 => (curr_size = scn /\ msg = "" /\ mem[scn - 1] = scn)
        /\ scn = 4 =>
             /\ curr_size = 3
             /\ \A i \in Slots : mem[i] = i + 1
             /\ msg = FullMsg
        /\ scn \in 5..7 => (ret.base = BLK /\ eVal = 8 - scn /\ curr_size = 7 - scn)
        /\ scn = 8 => (ret = RetPtr(NULL, 0) /\ curr_size = 0)

C15_TraceCompleted == cap = ScenarioCap /\ scn = 8

\* C19: in main, once 1..=STACK_SIZE are pushed, the loop `while
\* !stack.empty()` terminates; it leaves with exactly STACK_SIZE pops made,
\* none of them null, and curr_size 0; empty() returns true exactly when
\* curr_size is 0.
C19_LoopTerminates ==
    /\ [](pc = "exit" => (pops = STACK_SIZE /\ nullPops = 0 /\ curr_size = 0))
    /\ [][op' = "empty" => ret' = RetBool(curr_size = 0)]_vars
    /\ (pc = "while" ~> pc = "exit")

\* The loop was left after STACK_SIZE pops.
C19_Witness ==
    /\ pc = "exit"
    /\ pops = STACK_SIZE
    /\ op = "empty"
    /\ ret = RetBool(TRUE)

\* C20: in main, `*stack` is evaluated only in the branch taken when empty()
\* returned false after a pop, never at curr_size 0, and the 'curr item' it
\* prints after popping v is v - 1.
C20_PeekOnlyNonEmpty ==
    [][/\ (op' = "deref" \/ (pc = "peek" /\ pc' # pc)) =>
             /\ pc = "peek"
             /\ op = "empty"
             /\ ret = RetBool(FALSE)
             /\ curr_size > 0
             /\ fault' = "none"
       /\ out'.kind = "curr" => out'.curr = out'.popped - 1]_vars

\* main printed "Popped 2, curr item is 1."
C20_Witness == out = [kind |-> "curr", popped |-> 2, curr |-> 1]

\* C17: two threads share one stack and run every push, pop, deref and free
\* while holding one external mutex. In every interleaving curr_size stays
\* within 0..N, and whenever no call is in progress the stack is the
\* abstract sequence fed the calls in the order the mutex was taken; a pop
\* returns the latest push not yet popped. With LockFreeAlways in the place
\* of LockFree the same formula is violated: the methods do not synchronise.
C17_LockedStackSequential ==
    /\ curr_size \in 0..cap
    /\ (\A t \in Threads : tpc[t] \in {"idle", "locked", "unlock"}) =>
          /\ (allocOk /\ freed = 0) =>
                /\ curr_size = Len(abs)
                /\ \A k \in 1..Len(abs) : mem[k - 1] = abs[k]
          /\ (op = "pop" /\ ret.base # NULL) => eVal = absRet

\* Thread 1 has popped, under the mutex, the value thread 2 pushed.
C17_Witness ==
    /\ lockHolder = 1
    /\ tpc[1] = "unlock"
    /\ op = "pop"
    /\ ret.base = BLK
    /\ pushedBy = 2
    /\ eVal = absRet

\* The lines of the conversation in list order: question i, then answer i.
RECURSIVE ChatLines(_)
ChatLines(k) ==
    IF k = 0 THEN <<>>
    ELSE ChatLines(k - 1) \o <<Line(1, Question(k - 1)), Line(2, Answer(k - 1))>>

\* Answers the questioner's recv has returned so far.
AnswersReceived ==
    Cardinality({k \in 1..Len(printed) : printed[k].bot = 2})
        + (IF qpc = "print" THEN 1 ELSE 0)

\* Questions the questioner's send has accepted so far.
QuestionsSent ==
    q_vec_idx + (IF qpc \in {"sent_initial", "sent"} THEN 1 ELSE 0)

\* C21: in the mpsc chat the printed lines alternate in every interleaving,
\* 'Bot 1 : question i' before 'Bot 2 : answer i' before 'Bot 1 : question
\* i+1', for the 4 pairs in list order, and the questioner has never sent
\* question i+1 before it received answer i.
C21_ChatAlternates ==
    /\ Len(printed) <= 2 * QnaLen
    /\ printed = SubSeq(ChatLines(QnaLen), 1, Len(printed))
    /\ QuestionsSent <= AnswersReceived + 1

\* The whole conversation of 4 questions and 4 answers has been printed.
C21_Witness ==
    /\ QnaLen = 4
    /\ printed = ChatLines(QnaLen)
    /\ printed[7] = Line(1, "What's your favorite color?")
    /\ printed[8] = Line(2, "Blue")

\* C22: in the mpsc chat both threads terminate in every interleaving and
\* no send or recv returns an error: no 'Failed to ..' line is printed, no
\* thread panics, the test joins both threads, and by then exactly 4
\* questions and 4 answers were exchanged and none is left in a channel.
C22_ChatTerminates ==
    /\ [](\A k \in 1..Len(printed) : printed[k].bot # 0)
    /\ [](qpc # "panicked" /\ apc # "panicked" /\ chat_pc # "panicked")
    /\ [](chat_pc = "end" =>
            /\ qpc = "done" /\ apc = "done"
            /\ q_vec_idx = 4 /\ a_vec_idx = 4
            /\ chanQ = <<>> /\ chanA = <<>>)
    /\ <>(chat_pc = "end")

\* The answerer has exited after its 4th answer while the questioner has
\* not yet taken that answer out of the channel.
C22_Witness ==
    /\ apc = "done"
    /\ qpc = "recv"
    /\ chanA = <<"Blue">>

\* C23: in the condvar demo the popping thread pops no element off the
\* shared stack before the pushing thread has pushed all 8 strings and set
\* the `done` flag to true.
C23_NoPopBeforeDone ==
    cv_popped # <<>> => (cv_done /\ cv_push_i = CvPushes)

\* What the single, unchecked wait does guarantee: where wait returns only
\* when notified, nothing is popped before all pushes and done = true.
C23_HoldsWithoutSpuriousWakeups ==
    ~cv_spurious => C23_NoPopBeforeDone

\* C24: the condvar demo terminates in every interleaving of the two
\* threads: the popping thread is woken by notify_one, pops all 8 values
\* until the stack is empty, and both joins return.
C24_CondvarTerminates ==
    <>(cv_test_pc = "end" /\ Len(cv_popped) = CvPushes /\ cv_stack = <<>>)

\* The notification went out before the popping thread had started to wait:
\* the popping thread now waits with done = true and the pusher gone.
C24_LostWakeup ==
    /\ cv_pop_pc = "waiting"
    /\ cv_push_pc = "done"
    /\ cv_done
    /\ ~cv_spurious

\* C25: in the barrier demo with THREADS_N = 5 threads, no thread prints
\* the third message before all 5 threads have printed their first two, and
\* no thread prints 'Have a good day!' before all 5 have printed the third.
C25_BarrierOrdersMessages ==
    /\ THREADS_N = 5
    /\ \A t, u \in BarThreads :
          /\ BarPrinted(t) >= 3 => BarPrinted(u) >= 2
          /\ BarPrinted(t) >= 4 => BarPrinted(u) >= 3

\* Thread 1 has printed 'Have a good day!' while thread 5, which printed
\* its third message, has not yet come out of the second wait.
C25_Witness ==
    /\ bar_pc[1] = "done"
    /\ bar_pc[5] = "blocked2"
    /\ bar_generation = 2

C27_PopperAlwaysPanics ==
    <>(/\ mx_test_pc = "end"
       /\ mx_pop_pc = "panicked"
       /\ mx_pop_i = 2
       /\ mx_reported = 1)

\* What the code does guarantee: the test completes, the popper panics
\* only at i = 2, and a line is reported exactly when it panicked.
C27_TestCompletes ==
    /\ [](mx_pop_pc = "panicked" => mx_pop_i = 2)
    /\ <>[](/\ mx_test_pc = "end"
            /\ mx_reported = (IF mx_pop_pc = "panicked" THEN 1 ELSE 0))

\* The popper went through all its iterations without a panic: at i = 2 it
\* found the stack empty.
C27_NoPanic ==
    /\ mx_test_pc = "end"
    /\ mx_pop_pc = "done"
    /\ mx_reported = 0
    /\ ~mx_poisoned
====
